---- MODULE Spec2Model ----
(***************************************************************************)
(* Model of the generic circuit engine of sim-circuit (src/src/circuit.rs):*)
(* the write-once CircuitMemory, the CircuitBuilder, the GenericCircuit    *)
(* and the GenericCircuitExecutor, together with the BinaryGate catalogs   *)
(* the engine is instantiated with (src/src/circuit.rs tests and           *)
(* src/tests/binary.rs).                                                   *)
(*                                                                         *)
(* Rust values are represented as follows.                                 *)
(*   Vec<T>            a sequence; Rust index i is position i + 1          *)
(*   HashSet<usize>    a set                                               *)
(*   HashMap<K, V>     a function whose DOMAIN is the key set              *)
(*   Option<T>         <<>> for None, <<v>> for Some(v)                    *)
(*   Result<T, E>      [kind |-> "Ok", ...] or [kind |-> "Err", ...];      *)
(*                     a panic (unwrap on Err, slice index out of range)   *)
(*                     is the third outcome [kind |-> "Panic"]             *)
(*   enum variant      a tuple <<"Name", payload>>                         *)
(***************************************************************************)
EXTENDS Integers, Sequences, FiniteSets, TLC

\* ---------------------------------------------------------------- bounds
\* wire ids offered to the builder and used as binding keys: 0..MaxWire
MaxWire == 2
\* longest input list and longest output list of an offered component
MaxArity == 2
\* number of add_component calls made on one builder
MaxAdds == 2
\* longest declared-input vector (sum of the add_inputs slices)
MaxDeclared == 2
\* number of run() calls made on one executor
MaxRuns == 2
\* largest size of a stand-alone CircuitMemory, and largest index used on it
MaxMem == 3

Wires == 0..MaxWire

SeqsUpTo(S, n) == UNION {[1..k -> S] : k \in 0..n}

Range(s) == {s[i] : i \in 1..Len(s)}

\* Vec::contains / slice::contains
Contains(s, x) == \E i \in 1..Len(s) : s[i] = x

None == <<>>
Some(v) == <<v>>

\* ------------------------------------------------------- CircuitMemory
\* CircuitMemory::new: `size` slots, all None
CircuitMemory_new(size) == [i \in 1..size |-> None]

\* read reporting every empty or missing slot as uninitialized
read_unbounded(wires, index) ==
    IF index < Len(wires) /\ wires[index + 1] # None
    THEN [kind |-> "Ok", error |-> <<>>, value |-> wires[index + 1][1]]
    ELSE [kind |-> "Err", error |-> <<"UninitializedSlot", index>>, value |-> <<>>]

\* Memory::read for CircuitMemory
read(wires, index) ==
    IF index < Len(wires)
    THEN IF wires[index + 1] # None
         THEN [kind |-> "Ok", error |-> <<>>, value |-> wires[index + 1][1]]
         ELSE [kind |-> "Err", error |-> <<"UninitializedSlot", index>>,
               value |-> <<>>]
    ELSE [kind |-> "Err", error |-> <<"ReadError", index>>, value |-> <<>>]

\* write accepting a second write of the value the slot already holds
write_same_value(wires, index, value) ==
    IF index < Len(wires)
    THEN IF wires[index + 1] # None /\ wires[index + 1] # Some(value)
         THEN [kind |-> "Err", error |-> <<"RewriteAttempt", index>>,
               wires |-> wires]
         ELSE [kind |-> "Ok", error |-> <<>>,
               wires |-> [wires EXCEPT ![index + 1] = Some(value)]]
    ELSE [kind |-> "Err", error |-> <<"WriteError", index>>, wires |-> wires]

\* Memory::write for CircuitMemory: the result and the memory afterwards
write(wires, index, value) ==
    IF index < Len(wires)
    THEN IF wires[index + 1] # None
         THEN [kind |-> "Err", error |-> <<"RewriteAttempt", index>>,
               wires |-> wires]
         ELSE [kind |-> "Ok", error |-> <<>>,
               wires |-> [wires EXCEPT ![index + 1] = Some(value)]]
    ELSE [kind |-> "Err", error |-> <<"WriteError", index>>, wires |-> wires]

\* ------------------------------------------------------- CircuitBuilder
\* CircuitBuilder::new
CircuitBuilder_new ==
    [components        |-> <<>>,
     circuit_inputs    |-> <<>>,
     component_inputs  |-> {},
     component_outputs |-> {},
     index_map         |-> <<>>,
     next_index        |-> 0]

\* index_map.entry(id).or_insert_with(|| { next_index; next_index += 1 })
entry_or_insert(b, id) ==
    IF id \in DOMAIN b.index_map
    THEN b
    ELSE [b EXCEPT
            !.index_map  = [w \in (DOMAIN b.index_map) \cup {id} |->
                               IF w = id THEN b.next_index ELSE b.index_map[w]],
            !.next_index = b.next_index + 1]

\* CircuitBuilder::add_inputs
add_inputs(b, inputs) ==
    [b EXCEPT !.circuit_inputs = b.circuit_inputs \o inputs]

\* the `for &input in component.inputs()` loop of add_component, from
\* position i on; it returns at the first unconnected input and keeps what
\* the earlier iterations stored in the builder
RECURSIVE input_loop(_, _, _)
input_loop(b, ins, i) ==
    IF i > Len(ins)
    THEN [builder |-> b, error |-> <<>>]
    ELSE IF ins[i] \notin b.component_outputs /\ ~Contains(b.circuit_inputs, ins[i])
         THEN [builder |-> b, error |-> <<"TopologicalOrderError", ins[i]>>]
         ELSE input_loop(
                 entry_or_insert(
                     [b EXCEPT !.component_inputs = b.component_inputs \cup {ins[i]}],
                     ins[i]),
                 ins, i + 1)

\* output_loop with the two membership checks in the other order
RECURSIVE output_loop_connection_first(_, _, _)
output_loop_connection_first(b, outs, i) ==
    IF i > Len(outs)
    THEN [builder |-> b, error |-> <<>>]
    ELSE IF outs[i] \in b.component_outputs
         THEN [builder |-> b, error |-> <<"OutputsConnection", outs[i]>>]
         ELSE IF Contains(b.circuit_inputs, outs[i])
              THEN [builder |-> b, error |-> <<"OutputIsACircuitInput", outs[i]>>]
              ELSE output_loop_connection_first(
                      entry_or_insert(
                          [b EXCEPT !.component_outputs = b.component_outputs \cup {outs[i]}],
                          outs[i]),
                      outs, i + 1)

\* output_loop without the insertion into component_outputs
RECURSIVE output_loop_not_recorded(_, _, _)
output_loop_not_recorded(b, outs, i) ==
    IF i > Len(outs)
    THEN [builder |-> b, error |-> <<>>]
    ELSE IF Contains(b.circuit_inputs, outs[i])
         THEN [builder |-> b, error |-> <<"OutputIsACircuitInput", outs[i]>>]
         ELSE IF outs[i] \in b.component_outputs
              THEN [builder |-> b, error |-> <<"OutputsConnection", outs[i]>>]
              ELSE output_loop_not_recorded(entry_or_insert(b, outs[i]), outs, i + 1)

\* the `for &output in component.outputs()` loop of add_component
RECURSIVE output_loop(_, _, _)
output_loop(b, outs, i) ==
    IF i > Len(outs)
    THEN [builder |-> b, error |-> <<>>]
    ELSE IF Contains(b.circuit_inputs, outs[i])
         THEN [builder |-> b, error |-> <<"OutputIsACircuitInput", outs[i]>>]
         ELSE IF outs[i] \in b.component_outputs
              THEN [builder |-> b, error |-> <<"OutputsConnection", outs[i]>>]
              ELSE output_loop(
                      entry_or_insert(
                          [b EXCEPT !.component_outputs = b.component_outputs \cup {outs[i]}],
                          outs[i]),
                      outs, i + 1)

\* add_component running the input loop before the empty-list check
add_component_inputs_first(b, component) ==
    LET afterIn == input_loop(b, component.inputs, 1) IN
    IF afterIn.error # <<>>
    THEN [kind |-> "Err", error |-> afterIn.error, builder |-> afterIn.builder]
    ELSE IF component.inputs = <<>> \/ component.outputs = <<>>
         THEN [kind |-> "Err", error |-> <<"DisconnectedComponent">>,
               builder |-> afterIn.builder]
         ELSE LET afterOut == output_loop(afterIn.builder, component.outputs, 1) IN
              IF afterOut.error # <<>>
              THEN [kind |-> "Err", error |-> afterOut.error,
                    builder |-> afterOut.builder]
              ELSE [kind |-> "Ok", error |-> <<>>,
                    builder |-> [afterOut.builder EXCEPT
                                    !.components = Append(@, component)]]

\* CircuitBuilder::add_component: the result and the builder afterwards
add_component(b, component) ==
    IF component.inputs = <<>> \/ component.outputs = <<>>
    THEN [kind |-> "Err", error |-> <<"DisconnectedComponent">>, builder |-> b]
    ELSE LET afterIn == input_loop(b, component.inputs, 1) IN
         IF afterIn.error # <<>>
         THEN [kind |-> "Err", error |-> afterIn.error, builder |-> afterIn.builder]
         ELSE LET afterOut == output_loop(afterIn.builder, component.outputs, 1) IN
              IF afterOut.error # <<>>
              THEN [kind |-> "Err", error |-> afterOut.error,
                    builder |-> afterOut.builder]
              ELSE [kind |-> "Ok", error |-> <<>>,
                    builder |-> [afterOut.builder EXCEPT
                                    !.components = Append(@, component)]]

\* the orders in which a HashSet holding S can be iterated
Orderings(S) == {s \in [1..Cardinality(S) -> S] : Range(s) = S}

\* unused_inputs filtering on the seen-output set instead of the seen-input set
unused_inputs_by_outputs(b) ==
    SelectSeq(b.circuit_inputs, LAMBDA input : input \notin b.component_outputs)

\* the `unused_inputs` vector of build(): circuit_inputs filtered, in order
unused_inputs(b) ==
    SelectSeq(b.circuit_inputs, LAMBDA input : input \notin b.component_inputs)

\* build() accepting declared inputs that no component consumes
build_with_unused_inputs(b, circuit_outputs) ==
    IF b.components = <<>>
    THEN [kind |-> "Err", error |-> <<"EmptyBuilder">>, circuit |-> None]
    ELSE [kind |-> "Ok", error |-> <<>>,
          circuit |-> Some([components |-> b.components,
                            inputs     |-> b.circuit_inputs,
                            outputs    |-> circuit_outputs,
                            memory_map |-> b.index_map])]

\* build() checking the unused inputs before the empty component list
build_unused_inputs_first(b, circuit_outputs) ==
    IF unused_inputs(b) # <<>>
    THEN [kind |-> "Err", error |-> <<"UnusedInputs", unused_inputs(b)>>,
          circuit |-> None]
    ELSE IF b.components = <<>>
         THEN [kind |-> "Err", error |-> <<"EmptyBuilder">>, circuit |-> None]
         ELSE [kind |-> "Ok", error |-> <<>>,
               circuit |-> Some([components |-> b.components,
                                 inputs     |-> b.circuit_inputs,
                                 outputs    |-> circuit_outputs,
                                 memory_map |-> b.index_map])]

\* CircuitBuilder::build; `circuit_outputs` is the vector collected from the
\* HashSet difference, whose iteration order the code does not determine
build(b, circuit_outputs) ==
    IF b.components = <<>>
    THEN [kind |-> "Err", error |-> <<"EmptyBuilder">>, circuit |-> None]
    ELSE IF unused_inputs(b) # <<>>
         THEN [kind |-> "Err", error |-> <<"UnusedInputs", unused_inputs(b)>>,
               circuit |-> None]
         ELSE [kind |-> "Ok", error |-> <<>>,
               circuit |-> Some([components |-> b.components,
                                 inputs     |-> b.circuit_inputs,
                                 outputs    |-> circuit_outputs,
                                 memory_map |-> b.index_map])]

\* ------------------------------------------------------- GenericCircuit
\* memory_size returning the maximum index itself
memory_size_max_index(circuit) ==
    IF DOMAIN circuit.memory_map = {}
    THEN 0
    ELSE CHOOSE m \in {circuit.memory_map[w] : w \in DOMAIN circuit.memory_map} :
            \A w \in DOMAIN circuit.memory_map : circuit.memory_map[w] <= m

\* GenericCircuit::memory_size
memory_size(circuit) ==
    IF DOMAIN circuit.memory_map = {}
    THEN 0
    ELSE (CHOOSE m \in {circuit.memory_map[w] : w \in DOMAIN circuit.memory_map} :
            \A w \in DOMAIN circuit.memory_map : circuit.memory_map[w] <= m) + 1

\* the gate function of a BinaryOperation
BinaryOperation(op, a, b) ==
    CASE op = "AND"  -> a /\ b
      [] op = "XOR"  -> a # b
      [] op = "OR"   -> a \/ b
      [] op = "NAND" -> ~(a /\ b)
      [] op = "NOT"  -> ~a


\* BinaryGate::execute of the gate catalog in circuit.rs: both reads and the
\* write are unwrapped, and inputs[1] is indexed unconditionally
BinaryGate_execute(gate, wires) ==
    IF Len(gate.inputs) < 1 \/ read(wires, gate.inputs[1]).kind # "Ok"
    THEN [kind |-> "Panic", wires |-> wires]
    ELSE IF Len(gate.inputs) < 2 \/ read(wires, gate.inputs[2]).kind # "Ok"
         THEN [kind |-> "Panic", wires |-> wires]
         ELSE IF Len(gate.outputs) < 1
              THEN [kind |-> "Panic", wires |-> wires]
              ELSE LET result == BinaryOperation(gate.op,
                                                 read(wires, gate.inputs[1]).value,
                                                 read(wires, gate.inputs[2]).value)
                       w == write(wires, gate.outputs[1], result)
                   IN IF w.kind # "Ok"
                      THEN [kind |-> "Panic", wires |-> wires]
                      ELSE [kind |-> "Ok", wires |-> w.wires]

\* BinaryGate::execute of the gate catalog in tests/binary.rs: the second
\* read falls back to false
binary_BinaryGate_execute(gate, wires) ==
    IF Len(gate.inputs) < 1 \/ read(wires, gate.inputs[1]).kind # "Ok"
    THEN [kind |-> "Panic", wires |-> wires]
    ELSE IF Len(gate.inputs) < 2 \/ Len(gate.outputs) < 1
         THEN [kind |-> "Panic", wires |-> wires]
         ELSE LET rb == read(wires, gate.inputs[2])
                  result == BinaryOperation(gate.op,
                                            read(wires, gate.inputs[1]).value,
                                            IF rb.kind = "Ok" THEN rb.value ELSE FALSE)
                  w == write(wires, gate.outputs[1], result)
              IN IF w.kind # "Ok"
                 THEN [kind |-> "Panic", wires |-> wires]
                 ELSE [kind |-> "Ok", wires |-> w.wires]

\* Executable::execute of a component type whose execute can return Err: the
\* gates of circuit.rs and a gate that returns Err(()) without touching memory
Executable_execute(gate, wires) ==
    IF gate.op = "FAIL"
    THEN [kind |-> "Err", wires |-> wires]
    ELSE BinaryGate_execute(gate, wires)

RECURSIVE execute_loop(_, _, _, _)

\* Executable::execute of a GenericCircuit used as a component of an outer
\* circuit: the inner circuit's components (gates of circuit.rs) are executed
\* on the memory it is given
GenericCircuit_execute(inner, wires) ==
    [kind  |-> execute_loop("circuit::tests::BinaryGate", inner.components,
                            wires, 1).kind,
     wires |-> execute_loop("circuit::tests::BinaryGate", inner.components,
                            wires, 1).wires]

\* component.execute(memory) for the component type T the engine is
\* instantiated with
component_execute(T, gate, wires) ==
    IF T = "circuit::tests::BinaryGate"
    THEN BinaryGate_execute(gate, wires)
    ELSE IF T = "binary::BinaryGate"
         THEN binary_BinaryGate_execute(gate, wires)
         ELSE IF T = "GenericCircuit"
              THEN GenericCircuit_execute(gate, wires)
              ELSE Executable_execute(gate, wires)

\* execute_loop dropping a component's Err and going on
RECURSIVE execute_loop_ignoring_errors(_, _, _, _)
execute_loop_ignoring_errors(T, components, wires, i) ==
    IF i > Len(components)
    THEN [kind |-> "Ok", error |-> <<>>, wires |-> wires, executed |-> i - 1]
    ELSE LET r == component_execute(T, components[i], wires) IN
         IF r.kind = "Panic"
         THEN [kind |-> "Panic", error |-> <<>>, wires |-> r.wires, executed |-> i]
         ELSE execute_loop_ignoring_errors(T, components, r.wires, i + 1)

\* GenericCircuit::execute from component i on; `executed` counts the
\* component.execute calls made
execute_loop(T, components, wires, i) ==
    IF i > Len(components)
    THEN [kind |-> "Ok", error |-> <<>>, wires |-> wires, executed |-> i - 1]
    ELSE LET r == component_execute(T, components[i], wires) IN
         IF r.kind = "Panic"
         THEN [kind |-> "Panic", error |-> <<>>, wires |-> r.wires, executed |-> i]
         ELSE IF r.kind = "Err"
              THEN [kind |-> "Err", error |-> <<"ComponentExecutionError">>,
                    wires |-> r.wires, executed |-> i]
              ELSE execute_loop(T, components, r.wires, i + 1)

execute(T, circuit, wires) == execute_loop(T, circuit.components, wires, 1)

\* ----------------------------------------------- GenericCircuitExecutor
\* GenericCircuitExecutor::new: the memory allocated for the circuit
GenericCircuitExecutor_new(circuit) == CircuitMemory_new(memory_size(circuit))

\* set_inputs_loop ignoring a failed write
RECURSIVE set_inputs_loop_unchecked(_, _, _, _)
set_inputs_loop_unchecked(circuit, wires, inputs, i) ==
    IF i > Len(circuit.inputs)
    THEN [error |-> <<>>, wires |-> wires]
    ELSE LET input_index == circuit.inputs[i] IN
         IF input_index \in DOMAIN inputs
         THEN IF input_index \in DOMAIN circuit.memory_map
              THEN set_inputs_loop_unchecked(
                       circuit,
                       write(wires, circuit.memory_map[input_index],
                             inputs[input_index]).wires,
                       inputs, i + 1)
              ELSE [error |-> <<"MemoryMappingError", input_index>>, wires |-> wires]
         ELSE [error |-> <<"InputNotFoundError", input_index>>, wires |-> wires]

\* set_inputs_loop emptying the slots it has written when an input is absent
RECURSIVE set_inputs_loop_restoring(_, _, _, _)
set_inputs_loop_restoring(circuit, wires, inputs, i) ==
    IF i > Len(circuit.inputs)
    THEN [error |-> <<>>, wires |-> wires]
    ELSE LET input_index == circuit.inputs[i] IN
         IF input_index \in DOMAIN inputs
         THEN IF input_index \in DOMAIN circuit.memory_map
              THEN LET w == write(wires, circuit.memory_map[input_index],
                                  inputs[input_index])
                   IN IF w.kind = "Ok"
                      THEN set_inputs_loop_restoring(circuit, w.wires, inputs, i + 1)
                      ELSE [error |-> <<"MemoryError", w.error>>, wires |-> w.wires]
              ELSE [error |-> <<"MemoryMappingError", input_index>>, wires |-> wires]
         ELSE [error |-> <<"InputNotFoundError", input_index>>,
               wires |-> [s \in 1..Len(wires) |->
                              IF \E k \in 1..(i - 1) :
                                     circuit.memory_map[circuit.inputs[k]] + 1 = s
                              THEN None
                              ELSE wires[s]]]

\* the "Set inputs in memory" loop of run(), from declared input i on
RECURSIVE set_inputs_loop(_, _, _, _)
set_inputs_loop(circuit, wires, inputs, i) ==
    IF i > Len(circuit.inputs)
    THEN [error |-> <<>>, wires |-> wires]
    ELSE LET input_index == circuit.inputs[i] IN
         IF input_index \in DOMAIN inputs
         THEN IF input_index \in DOMAIN circuit.memory_map
              THEN LET w == write(wires, circuit.memory_map[input_index],
                                  inputs[input_index])
                   IN IF w.kind = "Ok"
                      THEN set_inputs_loop(circuit, w.wires, inputs, i + 1)
                      ELSE [error |-> <<"MemoryError", w.error>>, wires |-> w.wires]
              ELSE [error |-> <<"MemoryMappingError", input_index>>, wires |-> wires]
         ELSE [error |-> <<"InputNotFoundError", input_index>>, wires |-> wires]

\* the "Retrieve and return output values" loop of run(), from output i on
RECURSIVE output_values_loop(_, _, _, _)
output_values_loop(circuit, wires, output_values, i) ==
    IF i > Len(circuit.outputs)
    THEN [error |-> <<>>, value |-> output_values]
    ELSE LET output_index == circuit.outputs[i] IN
         IF output_index \in DOMAIN circuit.memory_map
         THEN LET r == read(wires, circuit.memory_map[output_index]) IN
              IF r.kind = "Ok"
              THEN output_values_loop(circuit, wires,
                       [w \in (DOMAIN output_values) \cup {output_index} |->
                           IF w = output_index THEN r.value ELSE output_values[w]],
                       i + 1)
              ELSE [error |-> <<"MemoryError", r.error>>, value |-> <<>>]
         ELSE [error |-> <<"UndefinedOutput", output_index>>, value |-> <<>>]

\* run() rejecting only a binding smaller than the declared input count
run_rejecting_only_smaller(T, circuit, wires, inputs) ==
    IF Cardinality(DOMAIN inputs) < Len(circuit.inputs)
    THEN [kind |-> "Err", error |-> <<"InputLengthMismatch">>, value |-> <<>>,
          wires |-> wires, executed |-> 0]
    ELSE LET s == set_inputs_loop(circuit, wires, inputs, 1) IN
         IF s.error # <<>>
         THEN [kind |-> "Err", error |-> s.error, value |-> <<>>,
               wires |-> s.wires, executed |-> 0]
         ELSE LET e == execute(T, circuit, s.wires) IN
              IF e.kind # "Ok"
              THEN [kind |-> e.kind, error |-> e.error, value |-> <<>>,
                    wires |-> e.wires, executed |-> e.executed]
              ELSE LET o == output_values_loop(circuit, e.wires, <<>>, 1) IN
                   IF o.error # <<>>
                   THEN [kind |-> "Err", error |-> o.error, value |-> <<>>,
                         wires |-> e.wires, executed |-> e.executed]
                   ELSE [kind |-> "Ok", error |-> <<>>, value |-> o.value,
                         wires |-> e.wires, executed |-> e.executed]

\* GenericCircuitExecutor::run: the result, the memory afterwards and the
\* number of component.execute calls made
run(T, circuit, wires, inputs) ==
    IF Cardinality(DOMAIN inputs) # Len(circuit.inputs)
    THEN [kind |-> "Err", error |-> <<"InputLengthMismatch">>, value |-> <<>>,
          wires |-> wires, executed |-> 0]
    ELSE LET s == set_inputs_loop(circuit, wires, inputs, 1) IN
         IF s.error # <<>>
         THEN [kind |-> "Err", error |-> s.error, value |-> <<>>,
               wires |-> s.wires, executed |-> 0]
         ELSE LET e == execute(T, circuit, s.wires) IN
              IF e.kind # "Ok"
              THEN [kind |-> e.kind, error |-> e.error, value |-> <<>>,
                    wires |-> e.wires, executed |-> e.executed]
              ELSE LET o == output_values_loop(circuit, e.wires, <<>>, 1) IN
                   IF o.error # <<>>
                   THEN [kind |-> "Err", error |-> o.error, value |-> <<>>,
                         wires |-> e.wires, executed |-> e.executed]
                   ELSE [kind |-> "Ok", error |-> <<>>, value |-> o.value,
                         wires |-> e.wires, executed |-> e.executed]

\* ================================================================ state
VARIABLES
    T,             \* the component type the engine is instantiated with
    builder,       \* the CircuitBuilder
    circuit,       \* Option<GenericCircuit>: the circuit build() returned
    memory,        \* the wires of the CircuitMemory in use
    phase,         \* which object the caller holds: "builder", "circuit",
                   \* "executor", "memory", "consumed" (build() returned Err)
                   \* or "panicked" (run() unwound)
    last,          \* the last call made: operation, argument and outcome
    adds,          \* number of add_component calls made
    runs,          \* number of run() calls made
    successes,     \* number of run() calls that returned Ok
    lateInputs,    \* add_inputs was called after an add_component call
    input_values,  \* the binding a test prepared for run()
    previous,      \* the run() made on the executor of the inner circuit,
                   \* once that circuit is nested in an outer one; NoCall
                   \* before
    reader         \* read_info_and_bristol in progress: the text not yet
                   \* read, the line buffer and the locals; NoReader when
                   \* no text is being read

vars == <<T, builder, circuit, memory, phase, last, adds, runs, successes,
          lateInputs, input_values, previous, reader>>

\* a call record: the operation, its argument, the receiver as it was before
\* the call (the builder, or the memory's wires), the outcome, and for run()
\* the number of component.execute calls made
Call(op, arg, before, kind, error, value, executed) ==
    [op |-> op, arg |-> arg, before |-> before, kind |-> kind, error |-> error,
     value |-> value, executed |-> executed]

NoCall == Call("none", <<>>, <<>>, "Ok", <<>>, <<>>, 0)

NoReader == <<>>

\* the components a caller may offer: AND gates with every input and output
\* list up to MaxArity over Wires (legal or not), and the XOR gates with two
\* inputs and one output
Components ==
    {[op |-> "AND", inputs |-> i, outputs |-> u] :
        i \in SeqsUpTo(Wires, MaxArity), u \in SeqsUpTo(Wires, MaxArity)}
    \cup
    {[op |-> "XOR", inputs |-> i, outputs |-> u] :
        i \in [1..2 -> Wires], u \in [1..1 -> Wires]}

\* HashMap<usize, bool> bindings with keys among S
Bindings(S) == UNION {[D -> BOOLEAN] : D \in SUBSET S}

Init ==
    /\ T = "circuit::tests::BinaryGate"
    /\ builder = CircuitBuilder_new
    /\ circuit = None
    /\ memory = <<>>
    /\ phase = "builder"
    /\ last = NoCall
    /\ adds = 0
    /\ runs = 0
    /\ successes = 0
    /\ lateInputs = FALSE
    /\ input_values = <<>>
    /\ previous = NoCall
    /\ reader = NoReader

\* builder.add_inputs(inputs)
AddInputs(inputs) ==
    /\ phase = "builder"
    /\ Len(builder.circuit_inputs) + Len(inputs) <= MaxDeclared
    /\ builder' = add_inputs(builder, inputs)
    /\ last' = Call("add_inputs", inputs, builder, "Ok", <<>>, <<>>, 0)
    /\ lateInputs' = (lateInputs \/ adds > 0)
    /\ UNCHANGED <<T, circuit, memory, phase, adds, runs, successes, input_values, previous,
                   reader>>

\* builder.add_component(component)
AddComponent(component) ==
    /\ phase = "builder"
    /\ adds < MaxAdds
    /\ LET r == add_component(builder, component) IN
        /\ builder' = r.builder
        /\ last' = Call("add_component", component, builder, r.kind, r.error, <<>>, 0)
    /\ adds' = adds + 1
    /\ UNCHANGED <<T, circuit, memory, phase, runs, successes, lateInputs,
                   input_values, previous,
                   reader>>

\* builder.build(): the builder is moved into the call
Build ==
    /\ phase = "builder"
    /\ \E circuit_outputs \in
            Orderings(builder.component_outputs \ builder.component_inputs) :
        LET r == build(builder, circuit_outputs) IN
        /\ circuit' = r.circuit
        /\ phase' = IF r.kind = "Ok" THEN "circuit" ELSE "consumed"
        /\ last' = Call("build", <<>>, builder, r.kind, r.error, <<>>, 0)
    /\ UNCHANGED <<T, builder, memory, adds, runs, successes, lateInputs,
                   input_values, previous,
                   reader>>

\* GenericCircuitExecutor::new(circuit)
NewExecutor ==
    /\ phase = "circuit"
    /\ memory' = GenericCircuitExecutor_new(circuit[1])
    /\ phase' = "executor"
    /\ last' = Call("new", <<>>, <<>>, "Ok", <<>>, <<>>, 0)
    /\ UNCHANGED <<T, builder, circuit, adds, runs, successes, lateInputs,
                   input_values, previous,
                   reader>>

\* executor.run(&inputs)
Run(inputs) ==
    /\ phase = "executor"
    /\ runs < MaxRuns
    /\ LET r == run(T, circuit[1], memory, inputs) IN
        /\ memory' = r.wires
        /\ phase' = IF r.kind = "Panic" THEN "panicked" ELSE "executor"
        /\ last' = Call("run", inputs, memory, r.kind, r.error, r.value, r.executed)
        /\ successes' = successes + (IF r.kind = "Ok" THEN 1 ELSE 0)
    /\ runs' = runs + 1
    /\ UNCHANGED <<T, builder, circuit, adds, lateInputs, input_values, previous,
                   reader>>

Next ==
    \/ \E inputs \in SeqsUpTo(Wires, MaxDeclared) \ {<<>>} : AddInputs(inputs)
    \/ \E component \in Components : AddComponent(component)
    \/ Build
    \/ NewExecutor
    \/ \E inputs \in Bindings(Wires) : Run(inputs)

Spec == Init /\ [][Next]_vars

\* ------------------------------------------- a stand-alone CircuitMemory
\* test_memory_operations: read and write calls, in any order and with any
\* index, on a CircuitMemory::new(size)
InitMem ==
    /\ T = "circuit::tests::BinaryGate"
    /\ builder = CircuitBuilder_new
    /\ circuit = None
    /\ memory \in {CircuitMemory_new(size) : size \in 0..MaxMem}
    /\ phase = "memory"
    /\ last = NoCall
    /\ adds = 0
    /\ runs = 0
    /\ successes = 0
    /\ lateInputs = FALSE
    /\ input_values = <<>>
    /\ previous = NoCall
    /\ reader = NoReader

\* memory.read(index)
MemRead(index) ==
    /\ phase = "memory"
    /\ LET r == read(memory, index) IN
        last' = Call("read", index, memory, r.kind, r.error,
                     IF r.kind = "Ok" THEN Some(r.value) ELSE None, 0)
    /\ UNCHANGED <<T, builder, circuit, memory, phase, adds, runs, successes,
                   lateInputs, input_values, previous,
                   reader>>

\* memory.write(index, value)
MemWrite(index, value) ==
    /\ phase = "memory"
    /\ LET w == write(memory, index, value) IN
        /\ memory' = w.wires
        /\ last' = Call("write", <<index, value>>, memory, w.kind, w.error, <<>>, 0)
    /\ UNCHANGED <<T, builder, circuit, phase, adds, runs, successes,
                   lateInputs, input_values, previous,
                   reader>>

NextMem ==
    \/ \E index \in 0..MaxMem : MemRead(index)
    \/ \E index \in 0..MaxMem, value \in BOOLEAN : MemWrite(index, value)

SpecMem == InitMem /\ [][NextMem]_vars

\* ------------------------------------------------ the full adder test
\* the five gates of FullAdder::new, in the order they are added
FullAdderGates ==
    << [op |-> "XOR", inputs |-> <<0, 1>>, outputs |-> <<3>>],
       [op |-> "AND", inputs |-> <<0, 1>>, outputs |-> <<4>>],
       [op |-> "XOR", inputs |-> <<3, 2>>, outputs |-> <<5>>],
       [op |-> "AND", inputs |-> <<3, 2>>, outputs |-> <<6>>],
       [op |-> "OR",  inputs |-> <<4, 6>>, outputs |-> <<7>>] >>

\* builder.add_component(g)? for the gates from position i on: the first Err
\* is returned
RECURSIVE add_components(_, _, _)
add_components(b, gates, i) ==
    IF i > Len(gates)
    THEN [kind |-> "Ok", error |-> <<>>, builder |-> b]
    ELSE LET r == add_component(b, gates[i]) IN
         IF r.kind = "Err" THEN r ELSE add_components(r.builder, gates, i + 1)

InitFullAdder ==
    /\ T = "binary::BinaryGate"
    /\ builder = CircuitBuilder_new
    /\ circuit = None
    /\ memory = <<>>
    /\ phase = "builder"
    /\ last = NoCall
    /\ adds = 0
    /\ runs = 0
    /\ successes = 0
    /\ lateInputs = FALSE
    /\ input_values \in Bindings({0, 1, 2})
    /\ previous = NoCall
    /\ reader = NoReader

\* FullAdder::new(): add_inputs, the five add_component calls and build()
FullAdder_new ==
    /\ phase = "builder"
    /\ adds = 0
    /\ LET a == add_components(add_inputs(builder, <<0, 1, 2>>), FullAdderGates, 1) IN
        /\ builder' = a.builder
        /\ IF a.kind = "Err"
           THEN /\ circuit' = None
                /\ phase' = "consumed"
                /\ last' = Call("FullAdder::new", <<>>, builder, "Err", a.error, <<>>, 0)
           ELSE \E circuit_outputs \in
                    Orderings(a.builder.component_outputs \ a.builder.component_inputs) :
                  LET r == build(a.builder, circuit_outputs) IN
                  /\ circuit' = r.circuit
                  /\ phase' = IF r.kind = "Ok" THEN "circuit" ELSE "consumed"
                  /\ last' = Call("FullAdder::new", <<>>, builder, r.kind, r.error, <<>>, 0)
        /\ adds' = Len(a.builder.components) + (IF a.kind = "Err" THEN 1 ELSE 0)
    /\ UNCHANGED <<T, memory, runs, successes, lateInputs, input_values, previous,
                   reader>>

\* test_full_adder: FullAdder::new().unwrap(), an executor, one run
NextFullAdder ==
    \/ FullAdder_new
    \/ NewExecutor
    \/ (runs = 0 /\ Run(input_values))

SpecFullAdder == InitFullAdder /\ [][NextFullAdder]_vars

\* --------------------------- the engine over a component that can fail
\* the components offered when the component type can return Err: gates
\* with two inputs and one output, AND gates and failing gates
ComponentsExecutable ==
    {[op |-> o, inputs |-> i, outputs |-> u] :
        o \in {"AND", "FAIL"}, i \in [1..2 -> Wires], u \in [1..1 -> Wires]}

InitExecutable ==
    /\ T = "model::Executable"
    /\ builder = CircuitBuilder_new
    /\ circuit = None
    /\ memory = <<>>
    /\ phase = "builder"
    /\ last = NoCall
    /\ adds = 0
    /\ runs = 0
    /\ successes = 0
    /\ lateInputs = FALSE
    /\ input_values = <<>>
    /\ previous = NoCall
    /\ reader = NoReader

NextExecutable ==
    \/ \E inputs \in SeqsUpTo(Wires, MaxDeclared) \ {<<>>} : AddInputs(inputs)
    \/ \E component \in ComponentsExecutable : AddComponent(component)
    \/ Build
    \/ NewExecutor
    \/ \E inputs \in Bindings(Wires) : Run(inputs)

SpecExecutable == InitExecutable /\ [][NextExecutable]_vars

\* ------------------------------------ a built circuit used as a component
\* an outer CircuitBuilder::<GenericCircuit<BinaryGate, bool>, bool>::new(),
\* add_inputs(inner.inputs()), add_component(inner) and build(), for a
\* circuit `inner` equal to the one the executor owns, after that executor
\* has made its one run(), which is remembered in `previous`
NestCircuit ==
    /\ T = "circuit::tests::BinaryGate"
    /\ phase \in {"executor", "panicked"}
    /\ last.op = "run"
    /\ runs = 1
    /\ previous = NoCall
    /\ LET inner == circuit[1]
           a == add_component(add_inputs(CircuitBuilder_new, inner.inputs), inner)
       IN /\ builder' = a.builder
          /\ IF a.kind = "Err"
             THEN /\ circuit' = None
                  /\ phase' = "consumed"
                  /\ last' = Call("nest", inner, CircuitBuilder_new, "Err",
                                  a.error, <<>>, 0)
             ELSE \E circuit_outputs \in
                      Orderings(a.builder.component_outputs
                                  \ a.builder.component_inputs) :
                    LET r == build(a.builder, circuit_outputs) IN
                    /\ circuit' = r.circuit
                    /\ phase' = IF r.kind = "Ok" THEN "circuit" ELSE "consumed"
                    /\ last' = Call("nest", inner, CircuitBuilder_new, r.kind,
                                    r.error, <<>>, 0)
    /\ T' = "GenericCircuit"
    /\ previous' = last
    /\ adds' = 1
    /\ runs' = 0
    /\ successes' = 0
    /\ lateInputs' = FALSE
    /\ UNCHANGED <<memory, input_values, reader>>

\* run() on the outer circuit's executor, with the binding the inner
\* circuit's executor was given
RunSecond ==
    /\ previous # NoCall
    /\ runs = 0
    /\ Run(previous.arg)

NextNested ==
    \/ \E inputs \in SeqsUpTo(Wires, MaxDeclared) \ {<<>>} : AddInputs(inputs)
    \/ \E component \in Components : AddComponent(component)
    \/ Build
    \/ NewExecutor
    \/ \E inputs \in Bindings(Wires) : (runs = 0 /\ previous = NoCall /\ Run(inputs))
    \/ NestCircuit
    \/ RunSecond

SpecNested == Init /\ [][NextNested]_vars

\* ------------------------------------------------- arithmetic simulation
\* simulate (src/src/simulate.rs) over NumberU32.  An ArithmeticCircuit is
\* [wire_count, info |-> [input_name_to_wire_index, constants,
\* output_name_to_wire_index], gates]; a gate is [op, lh_in, rh_in, out] and
\* a constant [value, wire_index].  Values and gate counts are bounded so
\* that every intermediate value stays far below 2^32; the operations
\* modelled are addition, multiplication, the unsupported ADiv and the
\* integer division, of which the last two can fail.

\* the decimal strings offered as constant values and the numbers they denote
Decimal == ("0" :> 0) @@ ("2" :> 2)

\* NumberU32::from_str
from_str(s) ==
    IF s \in DOMAIN Decimal
    THEN [kind |-> "Ok", error |-> <<>>, value |-> Decimal[s]]
    ELSE [kind |-> "Err", error |-> <<"ParseError">>, value |-> 0]

\* infix_op treating a zero divisor as a zero result
infix_op_unchecked(lhs, op, rhs) ==
    CASE op = "AAdd"    -> [kind |-> "Ok", error |-> <<>>, value |-> lhs + rhs]
      [] op = "AMul"    -> [kind |-> "Ok", error |-> <<>>, value |-> lhs * rhs]
      [] op = "ADiv"    -> [kind |-> "Err",
                            error |-> <<"UnsupportedOperation", "ADiv">>,
                            value |-> 0]
      [] op = "AIntDiv" -> IF rhs = 0
                           THEN [kind |-> "Ok", error |-> <<>>, value |-> 0]
                           ELSE [kind |-> "Ok", error |-> <<>>,
                                 value |-> lhs \div rhs]

\* NumberU32::infix_op
infix_op(lhs, op, rhs) ==
    CASE op = "AAdd"    -> [kind |-> "Ok", error |-> <<>>, value |-> lhs + rhs]
      [] op = "AMul"    -> [kind |-> "Ok", error |-> <<>>, value |-> lhs * rhs]
      [] op = "ADiv"    -> [kind |-> "Err",
                            error |-> <<"UnsupportedOperation", "ADiv">>,
                            value |-> 0]
      [] op = "AIntDiv" -> IF rhs = 0
                           THEN [kind |-> "Err", error |-> <<"DivisionByZero">>,
                                 value |-> 0]
                           ELSE [kind |-> "Ok", error |-> <<>>,
                                 value |-> lhs \div rhs]

\* the loop over input_name_to_wire_index, in the iteration order `names` of
\* the HashMap, from position i on; indexing `wires` out of range panics
RECURSIVE simulate_inputs(_, _, _, _, _)
simulate_inputs(c, inputs, names, wires, i) ==
    IF i > Len(names)
    THEN [kind |-> "Ok", error |-> <<>>, wires |-> wires]
    ELSE IF names[i] \notin DOMAIN inputs
         THEN [kind |-> "Err", error |-> <<"MissingInput", names[i]>>,
               wires |-> wires]
         ELSE IF c.info.input_name_to_wire_index[names[i]] >= Len(wires)
              THEN [kind |-> "Panic", error |-> <<>>, wires |-> wires]
              ELSE simulate_inputs(
                       c, inputs, names,
                       [wires EXCEPT ![c.info.input_name_to_wire_index[names[i]] + 1]
                                        = inputs[names[i]]],
                       i + 1)

\* the loop over the constants, in the iteration order `names`
RECURSIVE simulate_constants(_, _, _, _)
simulate_constants(c, names, wires, i) ==
    IF i > Len(names)
    THEN [kind |-> "Ok", error |-> <<>>, wires |-> wires]
    ELSE LET constant == c.info.constants[names[i]] IN
         IF constant.wire_index >= Len(wires)
         THEN [kind |-> "Panic", error |-> <<>>, wires |-> wires]
         ELSE IF from_str(constant.value).kind = "Err"
              THEN [kind |-> "Err", error |-> from_str(constant.value).error,
                    wires |-> wires]
              ELSE simulate_constants(
                       c, names,
                       [wires EXCEPT ![constant.wire_index + 1]
                                        = from_str(constant.value).value],
                       i + 1)

\* the loop over the gates, in listed order
RECURSIVE simulate_gates(_, _, _)
simulate_gates(gates, wires, i) ==
    IF i > Len(gates)
    THEN [kind |-> "Ok", error |-> <<>>, wires |-> wires]
    ELSE LET gate == gates[i] IN
         IF gate.lh_in >= Len(wires) \/ gate.rh_in >= Len(wires)
         THEN [kind |-> "Panic", error |-> <<>>, wires |-> wires]
         ELSE LET r == infix_op(wires[gate.lh_in + 1], gate.op,
                                wires[gate.rh_in + 1])
              IN IF r.kind = "Err"
                 THEN [kind |-> "Err", error |-> r.error, wires |-> wires]
                 ELSE IF gate.out >= Len(wires)
                      THEN [kind |-> "Panic", error |-> <<>>, wires |-> wires]
                      ELSE simulate_gates(
                               gates,
                               [wires EXCEPT ![gate.out + 1] = r.value],
                               i + 1)

\* simulate: the HashMaps of inputs and constants are iterated in the orders
\* input_names and constant_names
simulate(c, inputs, input_names, constant_names) ==
    LET zero == [i \in 1..c.wire_count |-> 0]
        a == simulate_inputs(c, inputs, input_names, zero, 1)
    IN IF a.kind # "Ok"
       THEN [kind |-> a.kind, error |-> a.error, value |-> <<>>]
       ELSE LET b == simulate_constants(c, constant_names, a.wires, 1) IN
            IF b.kind # "Ok"
            THEN [kind |-> b.kind, error |-> b.error, value |-> <<>>]
            ELSE LET g == simulate_gates(c.gates, b.wires, 1) IN
                 IF g.kind # "Ok"
                 THEN [kind |-> g.kind, error |-> g.error, value |-> <<>>]
                 ELSE IF \E name \in DOMAIN c.info.output_name_to_wire_index :
                            c.info.output_name_to_wire_index[name] >= Len(g.wires)
                      THEN [kind |-> "Panic", error |-> <<>>, value |-> <<>>]
                      ELSE [kind  |-> "Ok",
                            error |-> <<>>,
                            value |-> [name \in DOMAIN c.info.output_name_to_wire_index
                                          |-> g.wires[c.info.output_name_to_wire_index[name] + 1]]]

\* ---- the specification of simulate: an arithmetic circuit and named
\* ---- input values are chosen, then simulate is applied to them
MaxSimWire == 1
MaxGates == 2
MaxValue == 1

SimWires == 0..MaxSimWire

AGateTypes == {"AAdd", "AMul", "ADiv", "AIntDiv"}

ArithmeticGates ==
    [op : AGateTypes, lh_in : SimWires, rh_in : SimWires, out : SimWires]

\* the circuits offered to simulate: wire_count is MaxSimWire + 1, or one
\* less so that the highest wire index is out of range
ArithmeticCircuits ==
    [wire_count : {MaxSimWire, MaxSimWire + 1},
     info : [input_name_to_wire_index :
                 {<<>>, ("x" :> 0), ("x" :> 0) @@ ("y" :> MaxSimWire)},
             constants :
                 {<<>>} \cup
                 {("c" :> [value |-> v, wire_index |-> MaxSimWire]) :
                      v \in {"2", "z"}},
             output_name_to_wire_index : [{"y"} -> SimWires]],
     gates : SeqsUpTo(ArithmeticGates, MaxGates)]

NamedValues(names) == UNION {[S -> 0..MaxValue] : S \in SUBSET names}

\* tests/x_mul_x.rs
XMulX ==
    [wire_count |-> 2,
     info |-> [input_name_to_wire_index |-> ("x" :> 0),
               constants |-> <<>>,
               output_name_to_wire_index |-> ("y" :> 1)],
     gates |-> <<[op |-> "AMul", lh_in |-> 0, rh_in |-> 0, out |-> 1]>>]

XMulXInputs == ("x" :> 5)

\* tests/matrix_mul.rs
MatrixMul ==
    [wire_count |-> 20,
     info |-> [input_name_to_wire_index |->
                   ("a11" :> 0) @@ ("a12" :> 1) @@ ("a21" :> 2) @@
                   ("a22" :> 3) @@ ("b11" :> 4) @@ ("b12" :> 5) @@
                   ("b21" :> 6) @@ ("b22" :> 7),
               constants |-> <<>>,
               output_name_to_wire_index |->
                   ("c11" :> 10) @@ ("c12" :> 13) @@ ("c21" :> 16) @@
                   ("c22" :> 19)],
     gates |->
         <<[op |-> "AMul", lh_in |-> 0,  rh_in |-> 4,  out |-> 8],
           [op |-> "AMul", lh_in |-> 1,  rh_in |-> 6,  out |-> 9],
           [op |-> "AAdd", lh_in |-> 8,  rh_in |-> 9,  out |-> 10],
           [op |-> "AMul", lh_in |-> 0,  rh_in |-> 5,  out |-> 11],
           [op |-> "AMul", lh_in |-> 1,  rh_in |-> 7,  out |-> 12],
           [op |-> "AAdd", lh_in |-> 11, rh_in |-> 12, out |-> 13],
           [op |-> "AMul", lh_in |-> 2,  rh_in |-> 4,  out |-> 14],
           [op |-> "AMul", lh_in |-> 3,  rh_in |-> 6,  out |-> 15],
           [op |-> "AAdd", lh_in |-> 14, rh_in |-> 15, out |-> 16],
           [op |-> "AMul", lh_in |-> 2,  rh_in |-> 5,  out |-> 17],
           [op |-> "AMul", lh_in |-> 3,  rh_in |-> 7,  out |-> 18],
           [op |-> "AAdd", lh_in |-> 17, rh_in |-> 18, out |-> 19]>>]

MatrixMulInputs ==
    ("a11" :> 1) @@ ("a12" :> 2) @@ ("a21" :> 3) @@ ("a22" :> 4) @@
    ("b11" :> 1) @@ ("b12" :> 1) @@ ("b21" :> 1) @@ ("b22" :> 1)

InitSimulate ==
    /\ T = "NumberU32"
    /\ builder = CircuitBuilder_new
    /\ \/ /\ circuit \in ArithmeticCircuits
          /\ input_values \in NamedValues({"x", "y"})
       \/ /\ circuit = XMulX
          /\ input_values = XMulXInputs
       \/ /\ circuit = MatrixMul
          /\ input_values = MatrixMulInputs
    /\ memory = <<>>
    /\ phase = "arithmetic"
    /\ last = NoCall
    /\ adds = 0
    /\ runs = 0
    /\ successes = 0
    /\ lateInputs = FALSE
    /\ previous = NoCall
    /\ reader = NoReader

\* simulate(&circuit, &inputs)
Simulate ==
    /\ phase = "arithmetic"
    /\ last = NoCall
    /\ \E input_names \in Orderings(DOMAIN circuit.info.input_name_to_wire_index),
          constant_names \in Orderings(DOMAIN circuit.info.constants) :
           LET r == simulate(circuit, input_values, input_names, constant_names)
           IN last' = Call("simulate", input_values, circuit, r.kind, r.error,
                           r.value, 0)
    /\ UNCHANGED <<T, builder, circuit, memory, phase, adds, runs, successes,
                   lateInputs, input_values, previous,
                   reader>>

NextSimulate == Simulate

SpecSimulate == InitSimulate /\ [][NextSimulate]_vars

\* ---- the builder and the executor over the gate of tests/binary.rs
InitBinaryGate ==
    /\ T = "binary::BinaryGate"
    /\ builder = CircuitBuilder_new
    /\ circuit = None
    /\ memory = <<>>
    /\ phase = "builder"
    /\ last = NoCall
    /\ adds = 0
    /\ runs = 0
    /\ successes = 0
    /\ lateInputs = FALSE
    /\ input_values = <<>>
    /\ previous = NoCall
    /\ reader = NoReader

SpecBinaryGate == InitBinaryGate /\ [][Next]_vars

\* ------------------------------------------------- reading a Bristol text
\* ArithmeticCircuit::read_info_and_bristol (src/src/arithmetic_circuit.rs).
\* The text is a finite sequence of lines; a line is the sequence of its
\* whitespace-separated parts, so a line of whitespace only is <<>>.
MaxLines == 4

\* str::parse::<u32> on the numerals that occur in the lines offered
U32 == ("0" :> 0) @@ ("1" :> 1) @@ ("2" :> 2)

\* str::parse::<AGateType>, for the gate types simulate is modelled on
AGateType_from_str(s) ==
    IF s \in AGateTypes
    THEN [kind |-> "Ok", error |-> <<>>, value |-> s]
    ELSE [kind |-> "Err", error |-> <<"Failed to convert">>, value |-> <<>>]

\* BristolLine::get::<u32>(index), index counted from 0
BristolLine_get(parts, index) ==
    IF index >= Len(parts)
    THEN [kind |-> "Err", error |-> <<"Index out of bounds", index>>,
          value |-> <<>>]
    ELSE IF parts[index + 1] \in DOMAIN U32
         THEN [kind |-> "Ok", error |-> <<>>, value |-> U32[parts[index + 1]]]
         ELSE [kind |-> "Err", error |-> <<"Failed to convert at index", index>>,
               value |-> <<>>]

\* BristolLine::circuit_sizes
BristolLine_circuit_sizes(parts) ==
    IF BristolLine_get(parts, 0).kind = "Err"
    THEN BristolLine_get(parts, 0)
    ELSE IF BristolLine_get(parts, 1).kind = "Err"
         THEN BristolLine_get(parts, 1)
         ELSE [kind |-> "Ok", error |-> <<>>,
               value |-> <<BristolLine_get(parts, 0).value,
                           BristolLine_get(parts, 1).value>>]

\* BristolLine::io_count
BristolLine_io_count(parts) ==
    IF BristolLine_get(parts, 0).kind = "Err"
    THEN BristolLine_get(parts, 0)
    ELSE LET count == BristolLine_get(parts, 0).value IN
         IF Len(parts) # count + 1
         THEN [kind |-> "Err", error |-> <<"Expected parts", count + 1>>,
               value |-> <<>>]
         ELSE IF \E i \in 1..(Len(parts) - 1) : parts[i + 1] # "1"
              THEN [kind |-> "Err",
                    error |-> <<"Expected 1 at index",
                                CHOOSE i \in 1..(Len(parts) - 1) :
                                    /\ parts[i + 1] # "1"
                                    /\ \A j \in 1..(i - 1) : parts[j + 1] = "1">>,
                    value |-> <<>>]
              ELSE [kind |-> "Ok", error |-> <<>>, value |-> count]

\* BristolLine::gate
BristolLine_gate(parts) ==
    IF Len(parts) # 6
    THEN [kind |-> "Err", error |-> <<"Expected 6 parts">>, value |-> <<>>]
    ELSE IF BristolLine_get(parts, 0).kind = "Err"
    THEN BristolLine_get(parts, 0)
    ELSE IF /\ BristolLine_get(parts, 0).value = 2
            /\ BristolLine_get(parts, 1).kind = "Err"
    THEN BristolLine_get(parts, 1)
    ELSE IF \/ BristolLine_get(parts, 0).value # 2
            \/ BristolLine_get(parts, 1).value # 1
    THEN [kind |-> "Err", error |-> <<"Expected 2 inputs and 1 output">>,
          value |-> <<>>]
    ELSE IF BristolLine_get(parts, 2).kind = "Err"
    THEN BristolLine_get(parts, 2)
    ELSE IF BristolLine_get(parts, 3).kind = "Err"
    THEN BristolLine_get(parts, 3)
    ELSE IF BristolLine_get(parts, 4).kind = "Err"
    THEN BristolLine_get(parts, 4)
    ELSE IF AGateType_from_str(parts[6]).kind = "Err"
    THEN [kind |-> "Err", error |-> <<"Failed to convert at index", 5>>,
          value |-> <<>>]
    ELSE [kind |-> "Ok", error |-> <<>>,
          value |-> [op    |-> parts[6],
                     lh_in |-> BristolLine_get(parts, 2).value,
                     rh_in |-> BristolLine_get(parts, 3).value,
                     out   |-> BristolLine_get(parts, 4).value]]

\* the lines the texts are made of
BristolLines ==
    { <<>>,
      <<"1", "2">>,
      <<"0", "2">>,
      <<"1", "1">>,
      <<"2", "1", "0", "0", "1", "AMul">>,
      <<"2", "1", "0", "0", "1">>,
      <<"x">> }

\* the CircuitInfo given with the text
BristolInfos ==
    { XMulX.info,
      [input_name_to_wire_index |-> <<>>, constants |-> <<>>,
       output_name_to_wire_index |-> <<>>] }

\* the reader's state when read_info_and_bristol is entered: `r` is the text
\* not yet read, `line` the buffer of BristolLine::read, `call` the
\* BristolLine::read call in progress and `pc` the position in it
Reader(info, text) ==
    [info |-> info, text |-> text, r |-> text, line |-> <<>>,
     call |-> "circuit_sizes", pc |-> "read_line",
     gate_count |-> 0, wire_count |-> 0, gates |-> <<>>]

InitBristol ==
    /\ T = "NumberU32"
    /\ builder = CircuitBuilder_new
    /\ circuit = None
    /\ memory = <<>>
    /\ phase = "reader"
    /\ last = NoCall
    /\ adds = 0
    /\ runs = 0
    /\ successes = 0
    /\ lateInputs = FALSE
    /\ input_values = <<>>
    /\ previous = NoCall
    /\ \E info \in BristolInfos, text \in SeqsUpTo(BristolLines, MaxLines) :
           reader = Reader(info, text)

\* read_info_and_bristol returns
Return(kind, error, value) ==
    /\ reader' = [reader EXCEPT !.pc = "done"]
    /\ last' = Call("read_info_and_bristol", reader.text, reader.info, kind,
                    error, value, 0)

\* BristolLine::read is called for the next header or gate line
NextRead(call, gate_count, wire_count, gates) ==
    /\ reader' = [reader EXCEPT !.call = call, !.pc = "read_line",
                                !.gate_count = gate_count,
                                !.wire_count = wire_count, !.gates = gates]
    /\ last' = last

\* r.read_line(&mut line): at the end of the text it reads nothing and
\* leaves the fresh line empty
ReadLine ==
    /\ phase = "reader"
    /\ reader.pc = "read_line"
    /\ reader' = IF reader.r = <<>>
                 THEN [reader EXCEPT !.line = <<>>, !.pc = "is_empty"]
                 ELSE [reader EXCEPT !.line = Head(reader.r),
                                     !.r = Tail(reader.r),
                                     !.pc = "is_empty"]
    /\ UNCHANGED <<T, builder, circuit, memory, phase, last, adds, runs,
                   successes, lateInputs, input_values, previous>>

\* if line.is_empty() { continue; }
Continue ==
    /\ phase = "reader"
    /\ reader.pc = "is_empty"
    /\ reader.line = <<>>
    /\ reader' = [reader EXCEPT !.pc = "read_line"]
    /\ UNCHANGED <<T, builder, circuit, memory, phase, last, adds, runs,
                   successes, lateInputs, input_values, previous>>

\* BristolLine::read(r)?.circuit_sizes()?
CircuitSizes ==
    /\ phase = "reader"
    /\ reader.pc = "is_empty"
    /\ reader.line # <<>>
    /\ reader.call = "circuit_sizes"
    /\ LET s == BristolLine_circuit_sizes(reader.line) IN
           IF s.kind = "Err"
           THEN Return("Err", s.error, <<>>)
           ELSE NextRead("input_count", s.value[1], s.value[2], <<>>)
    /\ UNCHANGED <<T, builder, circuit, memory, phase, adds, runs,
                   successes, lateInputs, input_values, previous>>

\* BristolLine::read(r)?.io_count()? and the comparison with the info's inputs
InputCount ==
    /\ phase = "reader"
    /\ reader.pc = "is_empty"
    /\ reader.line # <<>>
    /\ reader.call = "input_count"
    /\ LET c == BristolLine_io_count(reader.line) IN
           IF c.kind = "Err"
           THEN Return("Err", c.error, <<>>)
           ELSE IF c.value #
                       Cardinality(DOMAIN reader.info.input_name_to_wire_index)
                THEN Return("Err", <<"Input count mismatch">>, <<>>)
                ELSE NextRead("output_count", reader.gate_count,
                              reader.wire_count, <<>>)
    /\ UNCHANGED <<T, builder, circuit, memory, phase, adds, runs,
                   successes, lateInputs, input_values, previous>>

\* the loop over r.lines() after the gates, and the Ok return
TrailingLines(gates) ==
    IF \E i \in 1..Len(reader.r) : reader.r[i] # <<>>
    THEN Return("Err", <<"Unexpected non-whitespace line after gates">>, <<>>)
    ELSE Return("Ok", <<>>,
                [wire_count |-> reader.wire_count, info |-> reader.info,
                 gates |-> gates])

\* BristolLine::read(r)?.io_count()? and the comparison with the info's
\* outputs; with gate_count = 0 the gate loop is skipped
OutputCount ==
    /\ phase = "reader"
    /\ reader.pc = "is_empty"
    /\ reader.line # <<>>
    /\ reader.call = "output_count"
    /\ LET c == BristolLine_io_count(reader.line) IN
           IF c.kind = "Err"
           THEN Return("Err", c.error, <<>>)
           ELSE IF c.value #
                       Cardinality(DOMAIN reader.info.output_name_to_wire_index)
                THEN Return("Err", <<"Output count mismatch">>, <<>>)
                ELSE IF reader.gate_count = 0
                     THEN TrailingLines(<<>>)
                     ELSE NextRead("gate", reader.gate_count,
                                   reader.wire_count, <<>>)
    /\ UNCHANGED <<T, builder, circuit, memory, phase, adds, runs,
                   successes, lateInputs, input_values, previous>>

\* gates.push(BristolLine::read(r)?.gate()?), one iteration of the gate loop
Gate ==
    /\ phase = "reader"
    /\ reader.pc = "is_empty"
    /\ reader.line # <<>>
    /\ reader.call = "gate"
    /\ LET g == BristolLine_gate(reader.line) IN
           IF g.kind = "Err"
           THEN Return("Err", g.error, <<>>)
           ELSE IF Len(reader.gates) + 1 = reader.gate_count
                THEN TrailingLines(Append(reader.gates, g.value))
                ELSE NextRead("gate", reader.gate_count, reader.wire_count,
                              Append(reader.gates, g.value))
    /\ UNCHANGED <<T, builder, circuit, memory, phase, adds, runs,
                   successes, lateInputs, input_values, previous>>

NextBristol ==
    \/ ReadLine
    \/ Continue
    \/ CircuitSizes
    \/ InputCount
    \/ OutputCount
    \/ Gate

\* the program runs on while it has a step to take
SpecBristol == InitBristol /\ [][NextBristol]_vars /\ WF_vars(NextBristol)

\* ============================================================ properties
\* vocabulary of the properties
Declared(b) == Range(b.circuit_inputs)

OutputsOf(components) ==
    UNION {Range(components[k].outputs) : k \in 1..Len(components)}

InputsOf(components) ==
    UNION {Range(components[k].inputs) : k \in 1..Len(components)}

Prefix(s, n) == SubSeq(s, 1, n)

\* some add_component call on the builder returned Err
Failed == Len(builder.components) < adds

\* the state right after an add_component call before which no add_component
\* call had failed and after which no input was declared late
FirstFailureOrAccepted ==
    /\ last.op = "add_component"
    /\ ~lateInputs
    /\ Len(last.before.components) = adds - 1

\* every input of c is a declared input or an output of an earlier component
InputsConnected(c, declared, earlier) ==
    \A i \in 1..Len(c.inputs) : c.inputs[i] \in declared \cup OutputsOf(earlier)

\* no output of c is a declared input, an output of an earlier component or
\* an earlier output of c
OutputsFresh(c, declared, earlier) ==
    \A i \in 1..Len(c.outputs) :
        /\ c.outputs[i] \notin declared \cup OutputsOf(earlier)
        /\ \A j \in 1..(i - 1) : c.outputs[j] # c.outputs[i]

WellFormedSequence(declared, components) ==
    \A k \in 1..Len(components) :
        /\ InputsConnected(components[k], declared, Prefix(components, k - 1))
        /\ OutputsFresh(components[k], declared, Prefix(components, k - 1))

C2_FullAdderComputesSumAndCarry ==
    /\ last.op = "FullAdder::new" => last.kind = "Ok"
    /\ (last.op = "run" /\ DOMAIN last.arg = {0, 1, 2})
        => /\ last.kind = "Ok"
           /\ DOMAIN last.value = {5, 7}
           /\ last.value[5] = ((last.arg[0] # last.arg[1]) # last.arg[2])
           /\ last.value[7] = ((last.arg[0] /\ last.arg[1])
                               \/ ((last.arg[0] # last.arg[1]) /\ last.arg[2]))

\* ---------------------------------------------------------------- C3
\* the value of every wire when the components are evaluated in insertion
\* order on wire ids, starting from the binding `values`: the first output
\* of a gate gets the gate function of its first two inputs
RECURSIVE WireValues(_, _, _)
WireValues(components, values, k) ==
    IF k > Len(components)
    THEN values
    ELSE LET c == components[k]
             v == BinaryOperation(c.op, values[c.inputs[1]], values[c.inputs[2]])
         IN WireValues(components,
                       [w \in (DOMAIN values) \cup {c.outputs[1]} |->
                           IF w = c.outputs[1] THEN v ELSE values[w]],
                       k + 1)

\* every component is a gate with two inputs and one output
BinaryGates(components) ==
    \A k \in 1..Len(components) :
        Len(components[k].inputs) = 2 /\ Len(components[k].outputs) = 1

\* the declared inputs are pairwise distinct
DistinctInputs(inputs) ==
    \A i, j \in 1..Len(inputs) : inputs[i] = inputs[j] => i = j

\* the first run() on an executor, with a value for exactly the declared inputs
FirstRunWithExactBinding ==
    /\ last.op = "run"
    /\ runs = 1
    /\ DOMAIN last.arg = Range(circuit[1].inputs)

\* C3: for every built circuit (of two-input, one-output gates, with distinct
\* declared inputs) and every binding of exactly the declared input ids,
\* run() on a fresh executor succeeds and returns a value for exactly the
\* external outputs, the one obtained by evaluating the components in
\* insertion order.
C3_RunReturnsEveryOutput ==
    (/\ FirstRunWithExactBinding
     /\ BinaryGates(circuit[1].components)
     /\ DistinctInputs(circuit[1].inputs))
        => /\ last.kind = "Ok"
           /\ DOMAIN last.value = Range(circuit[1].outputs)
           /\ \A w \in DOMAIN last.value :
                 last.value[w] = WireValues(circuit[1].components, last.arg, 1)[w]

\* ---------------------------------------------------------------- C4
\* C4: add_component of a component with inputs and outputs fails with
\* TopologicalOrderError(id) when some input is neither a declared input nor
\* an output of a previously accepted component, id being the first such
\* input.
C4_TopologicalOrderErrorOnFirstUnconnectedInput ==
    (/\ last.op = "add_component"
     /\ last.arg.inputs # <<>>
     /\ last.arg.outputs # <<>>
     /\ ~InputsConnected(last.arg, Declared(last.before), last.before.components))
        => /\ last.kind = "Err"
           /\ \E i \in 1..Len(last.arg.inputs) :
                /\ last.error = <<"TopologicalOrderError", last.arg.inputs[i]>>
                /\ last.arg.inputs[i] \notin
                       Declared(last.before) \cup OutputsOf(last.before.components)
                /\ \A j \in 1..(i - 1) :
                       last.arg.inputs[j] \in
                           Declared(last.before) \cup OutputsOf(last.before.components)

\* ---------------------------------------------------------------- C5
\* C5 as stated: add_component fails with OutputIsACircuitInput(id) when an
\* output of the component is a declared circuit input and all its inputs
\* (there is at least one) are legal, id being the first such output.
C5_OutputIsACircuitInput ==
    (/\ last.op = "add_component"
     /\ last.arg.inputs # <<>>
     /\ InputsConnected(last.arg, Declared(last.before), last.before.components)
     /\ \E i \in 1..Len(last.arg.outputs) : last.arg.outputs[i] \in Declared(last.before))
        => /\ last.kind = "Err"
           /\ \E i \in 1..Len(last.arg.outputs) :
                /\ last.error = <<"OutputIsACircuitInput", last.arg.outputs[i]>>
                /\ \A j \in 1..(i - 1) : last.arg.outputs[j] \notin Declared(last.before)

\* output i of c is the first output the output loop rejects: no output
\* before it is a declared input, is in the seen-output set or repeats an
\* earlier output of c
FirstRejectedOutput(c, b, i) ==
    \A j \in 1..(i - 1) :
        /\ c.outputs[j] \notin Declared(b) \cup b.component_outputs
        /\ \A k \in 1..(j - 1) : c.outputs[k] # c.outputs[j]

\* C5 amended: add_component fails with OutputIsACircuitInput(id) when the
\* component has at least one input, all its inputs are legal, and id is a
\* declared circuit input that no rejected output precedes in the output
\* list; this holds also when id is in the seen-output set (the check takes
\* precedence over OutputsConnection for the same id).
C5_OutputIsACircuitInputWhenReachedFirst ==
    last.op = "add_component" =>
        \A i \in 1..Len(last.arg.outputs) :
            (/\ last.arg.inputs # <<>>
             /\ InputsConnected(last.arg, Declared(last.before),
                                last.before.components)
             /\ last.arg.outputs[i] \in Declared(last.before)
             /\ FirstRejectedOutput(last.arg, last.before, i))
                => /\ last.kind = "Err"
                   /\ last.error = <<"OutputIsACircuitInput", last.arg.outputs[i]>>

\* add_component returned OutputIsACircuitInput for an id that an accepted
\* component already produces
C5_Witness ==
    /\ last.op = "add_component"
    /\ last.kind = "Err"
    /\ \E id \in OutputsOf(last.before.components) :
          last.error = <<"OutputIsACircuitInput", id>>

\* ---------------------------------------------------------------- C6
\* each wire id is an output of at most one component of the list, once
SingleDriver(components) ==
    \A k1, k2 \in 1..Len(components) :
        \A i1 \in 1..Len(components[k1].outputs) :
            \A i2 \in 1..Len(components[k2].outputs) :
                components[k1].outputs[i1] = components[k2].outputs[i2]
                    => (k1 = k2 /\ i1 = i2)

\* the state right after add_component was given a component with at least
\* one input, all of them legal
AddedWithLegalInputs ==
    /\ last.op = "add_component"
    /\ last.arg.inputs # <<>>
    /\ InputsConnected(last.arg, Declared(last.before), last.before.components)

\* C6 as stated: add_component (of a component whose inputs are legal) fails
\* with OutputsConnection(id) when an output id was already produced by an
\* earlier component, so each wire id is an output of at most one accepted
\* component, and at most once.
C6_OutputsConnection ==
    /\ (/\ AddedWithLegalInputs
        /\ \E i \in 1..Len(last.arg.outputs) :
              last.arg.outputs[i] \in OutputsOf(last.before.components))
        => /\ last.kind = "Err"
           /\ \E i \in 1..Len(last.arg.outputs) :
                /\ last.arg.outputs[i] \in OutputsOf(last.before.components)
                /\ last.error = <<"OutputsConnection", last.arg.outputs[i]>>
    /\ SingleDriver(builder.components)
    /\ circuit # None => SingleDriver(circuit[1].components)

\* C6 amended: add_component fails when an output id was already produced by
\* an earlier component -- with OutputsConnection(id) when the component's
\* inputs are legal, id is not a declared input and no rejected output
\* precedes id in the output list -- so each wire id is an output of at most
\* one accepted component, and at most once.
C6_SingleDriver ==
    /\ (/\ last.op = "add_component"
        /\ \E i \in 1..Len(last.arg.outputs) :
              last.arg.outputs[i] \in OutputsOf(last.before.components))
        => last.kind = "Err"
    /\ AddedWithLegalInputs =>
        \A i \in 1..Len(last.arg.outputs) :
            (/\ last.arg.outputs[i] \in OutputsOf(last.before.components)
             /\ last.arg.outputs[i] \notin Declared(last.before)
             /\ FirstRejectedOutput(last.arg, last.before, i))
                => /\ last.kind = "Err"
                   /\ last.error = <<"OutputsConnection", last.arg.outputs[i]>>
    /\ SingleDriver(builder.components)
    /\ circuit # None => SingleDriver(circuit[1].components)

\* add_component returned OutputsConnection for an output of the one
\* component accepted before
C6_Witness ==
    /\ last.op = "add_component"
    /\ last.kind = "Err"
    /\ Len(builder.components) = 1
    /\ \E id \in OutputsOf(builder.components) :
          last.error = <<"OutputsConnection", id>>

\* ---------------------------------------------------------------- C7
\* the state right after a read or write call on the memory
AfterMemoryCall == last.op \in {"read", "write"}

\* C7: memory is write-once: no call changes the number of slots or a slot
\* that holds a value, and a write to a slot that holds a value fails with
\* RewriteAttempt(index), whatever the new value, and changes no slot.
C7_WriteOnce ==
    AfterMemoryCall =>
        /\ Len(memory) = Len(last.before)
        /\ \A i \in 1..Len(last.before) :
              last.before[i] # None => memory[i] = last.before[i]
        /\ (/\ last.op = "write"
            /\ last.arg[1] < Len(last.before)
            /\ last.before[last.arg[1] + 1] # None)
            => /\ last.kind = "Err"
               /\ last.error = <<"RewriteAttempt", last.arg[1]>>
               /\ memory = last.before

\* a write of the value the slot already holds was rejected
C7_Witness ==
    /\ last.op = "write"
    /\ last.arg[1] < Len(last.before)
    /\ last.before[last.arg[1] + 1] = Some(last.arg[2])
    /\ last.kind = "Err"

\* ---------------------------------------------------------------- C8
\* C8: read(i) returns the stored value, fails with UninitializedSlot(i) on
\* an empty slot i < n and with ReadError(i) when i >= n; write(i, v) on an
\* empty slot i < n succeeds and a following read(i) returns v; write(i, v)
\* with i >= n fails with WriteError(i); read never changes memory and a
\* failed write changes nothing.
C8_ReadWriteContract ==
    /\ last.op = "read" =>
        /\ memory = last.before
        /\ IF last.arg >= Len(last.before)
           THEN last.kind = "Err" /\ last.error = <<"ReadError", last.arg>>
           ELSE IF last.before[last.arg + 1] = None
                THEN /\ last.kind = "Err"
                     /\ last.error = <<"UninitializedSlot", last.arg>>
                ELSE /\ last.kind = "Ok"
                     /\ last.value = last.before[last.arg + 1]
    /\ last.op = "write" =>
        /\ last.kind = "Err" => memory = last.before
        /\ last.arg[1] >= Len(last.before)
            => last.kind = "Err" /\ last.error = <<"WriteError", last.arg[1]>>
        /\ (last.arg[1] < Len(last.before) /\ last.before[last.arg[1] + 1] = None)
            => /\ last.kind = "Ok"
               /\ read(memory, last.arg[1]).kind = "Ok"
               /\ read(memory, last.arg[1]).value = last.arg[2]
               /\ \A i \in 1..Len(last.before) :
                     i # last.arg[1] + 1 => memory[i] = last.before[i]

\* a read returned a value that an earlier write stored
C8_Witness ==
    /\ last.op = "read"
    /\ last.kind = "Ok"
    /\ last.value = Some(TRUE)

\* ---------------------------------------------------------------- C9
\* before the last call, a run() on this executor had returned Ok
SucceededBefore ==
    successes - (IF last.op = "run" /\ last.kind = "Ok" THEN 1 ELSE 0) >= 1

\* the error of a rejected second write of the first declared input
FirstInputRewriteAttempt ==
    <<"MemoryError",
      <<"RewriteAttempt", circuit[1].memory_map[circuit[1].inputs[1]]>>>>

\* C9 as stated: at most one run() succeeds, and after a successful run()
\* every further run() with a right-sized binding fails with
\* MemoryError(RewriteAttempt) at the internal index of the first declared
\* input, executes no component and leaves memory unchanged.
C9_SecondRunRewriteAttempt ==
    /\ successes <= 1
    /\ (/\ last.op = "run"
        /\ SucceededBefore
        /\ Cardinality(DOMAIN last.arg) = Len(circuit[1].inputs))
        => /\ last.kind = "Err"
           /\ last.error = FirstInputRewriteAttempt
           /\ last.executed = 0
           /\ memory = last.before

\* C9 amended: ... every further run() with a right-sized binding that holds
\* the first declared input id fails with MemoryError(RewriteAttempt) ...
C9_SecondRunRewriteAttemptWhenFirstInputBound ==
    /\ successes <= 1
    /\ (/\ last.op = "run"
        /\ SucceededBefore
        /\ Cardinality(DOMAIN last.arg) = Len(circuit[1].inputs)
        /\ circuit[1].inputs[1] \in DOMAIN last.arg)
        => /\ last.kind = "Err"
           /\ last.error = FirstInputRewriteAttempt
           /\ last.executed = 0
           /\ memory = last.before

\* a second run() with the binding of the successful first one was rejected
C9_Witness ==
    /\ last.op = "run"
    /\ runs = 2
    /\ SucceededBefore
    /\ DOMAIN last.arg = Range(circuit[1].inputs)
    /\ last.kind = "Err"

\* --------------------------------------------------------------- C10
\* C10: run() fails with InputLengthMismatch whenever the binding's size
\* differs from the declared input count, whatever ids it holds and whatever
\* the memory holds, before anything is written or executed.
C10_InputLengthMismatch ==
    (last.op = "run" /\ Cardinality(DOMAIN last.arg) # Len(circuit[1].inputs))
        => /\ last.kind = "Err"
           /\ last.error = <<"InputLengthMismatch">>
           /\ last.executed = 0
           /\ memory = last.before

\* a binding of every declared input and one more id was rejected
C10_Witness ==
    /\ last.op = "run"
    /\ last.error = <<"InputLengthMismatch">>
    /\ Range(circuit[1].inputs) \subseteq DOMAIN last.arg
    /\ Range(circuit[1].inputs) # DOMAIN last.arg

\* --------------------------------------------------------------- C11
\* the first run() on an executor, with a binding of the right size
FirstRunWithRightSize ==
    /\ last.op = "run"
    /\ runs = 1
    /\ Cardinality(DOMAIN last.arg) = Len(circuit[1].inputs)

\* the declared inputs that have no value in the binding, in declaration order
AbsentInputs(c, inputs) ==
    SelectSeq(c.inputs, LAMBDA id : id \notin DOMAIN inputs)

\* every declared input's value is in memory at the input's internal index
InputsWritten(c, wires, inputs) ==
    \A i \in 1..Len(c.inputs) :
        /\ c.inputs[i] \in DOMAIN c.memory_map
        /\ read(wires, c.memory_map[c.inputs[i]]).kind = "Ok"
        /\ read(wires, c.memory_map[c.inputs[i]]).value = inputs[c.inputs[i]]

\* C11: with a binding of the right size, run() on a fresh executor fails
\* with InputNotFoundError(id) exactly when some declared input is absent
\* from the binding, id being the first absent one in declaration order;
\* otherwise the input phase completes: every declared input's value is in
\* memory at its internal index and the components are executed.
C11_InputNotFoundOnFirstAbsentInput ==
    FirstRunWithRightSize
        => IF AbsentInputs(circuit[1], last.arg) # <<>>
           THEN /\ last.kind = "Err"
                /\ last.error = <<"InputNotFoundError",
                                  AbsentInputs(circuit[1], last.arg)[1]>>
                /\ last.executed = 0
           ELSE /\ last.executed >= 1
                /\ InputsWritten(circuit[1], memory, last.arg)

\* --------------------------------------------------------------- C13
\* C13: build() fails with EmptyBuilder whenever the builder has accepted no
\* component, whatever inputs were declared and whatever add_component calls
\* failed before; with an accepted component it never returns EmptyBuilder.
C13_EmptyBuilder ==
    last.op = "build"
        => IF last.before.components = <<>>
           THEN last.kind = "Err" /\ last.error = <<"EmptyBuilder">>
           ELSE last.error # <<"EmptyBuilder">>

\* build() returned EmptyBuilder on a builder with declared inputs on which
\* an add_component call had failed
C13_Witness ==
    /\ last.op = "build"
    /\ last.error = <<"EmptyBuilder">>
    /\ last.before.circuit_inputs # <<>>
    /\ Failed

\* --------------------------------------------------------------- C14
\* the declared inputs that are an input of no component of the list, in
\* declaration order
NotConsumed(declared, components) ==
    SelectSeq(declared, LAMBDA id : id \notin InputsOf(components))

\* C14: with at least one accepted component, build() fails with
\* UnusedInputs(ids) exactly when some declared input is not an input of any
\* component in the builder's component list, ids being those declared
\* inputs in declaration order.
C14_UnusedInputs ==
    (last.op = "build" /\ last.before.components # <<>>)
        => IF NotConsumed(last.before.circuit_inputs, last.before.components) # <<>>
           THEN /\ last.kind = "Err"
                /\ last.error =
                     <<"UnusedInputs",
                       NotConsumed(last.before.circuit_inputs,
                                   last.before.components)>>
           ELSE last.kind = "Ok"

\* --------------------------------------------------------------- C15
\* C15: add_component fails with DisconnectedComponent if the component's
\* input list or its output list is empty, before any wire id is looked at
\* (the builder is left as it was), and for no other component; so every
\* accepted component has a non-empty input list and a non-empty output list.
C15_DisconnectedComponent ==
    /\ last.op = "add_component"
        => IF last.arg.inputs = <<>> \/ last.arg.outputs = <<>>
           THEN /\ last.kind = "Err"
                /\ last.error = <<"DisconnectedComponent">>
                /\ builder = last.before
           ELSE last.error # <<"DisconnectedComponent">>
    /\ \A k \in 1..Len(builder.components) :
          /\ builder.components[k].inputs # <<>>
          /\ builder.components[k].outputs # <<>>

\* a component without outputs whose input is not connected was rejected as
\* disconnected
C15_Witness ==
    /\ last.op = "add_component"
    /\ last.error = <<"DisconnectedComponent">>
    /\ last.arg.outputs = <<>>
    /\ last.arg.inputs # <<>>
    /\ ~InputsConnected(last.arg, Declared(last.before), last.before.components)

\* --------------------------------------------------------------- C16
\* the wire ids the components reference, in the order they reference them:
\* for each component its inputs in order, then its outputs in order
RECURSIVE References(_, _)
References(components, k) ==
    IF k > Len(components)
    THEN <<>>
    ELSE components[k].inputs \o components[k].outputs
            \o References(components, k + 1)

\* s without the later occurrences of its elements
RECURSIVE FirstOccurrences(_, _)
FirstOccurrences(s, seen) ==
    IF s = <<>>
    THEN <<>>
    ELSE IF Head(s) \in seen
         THEN FirstOccurrences(Tail(s), seen)
         ELSE <<Head(s)>> \o FirstOccurrences(Tail(s), seen \cup {Head(s)})

\* the wire ids of the accepted components in first-encounter order
FirstEncounterOrder(components) ==
    FirstOccurrences(References(components, 1), {})

\* C16: after any sequence of add_inputs and add_component calls the index
\* map is injective, its values are exactly 0..next_index-1, and it maps the
\* wire ids referenced by the builder's components to their rank in
\* first-encounter order (a component's inputs in order, then its outputs).
C16_IndexMapIsFirstEncounterOrder ==
    /\ \A v, w \in DOMAIN builder.index_map :
          builder.index_map[v] = builder.index_map[w] => v = w
    /\ {builder.index_map[w] : w \in DOMAIN builder.index_map}
          = 0..(builder.next_index - 1)
    /\ DOMAIN builder.index_map = Range(FirstEncounterOrder(builder.components))
    /\ \A i \in 1..Len(FirstEncounterOrder(builder.components)) :
          builder.index_map[FirstEncounterOrder(builder.components)[i]] = i - 1

\* --------------------------------------------------------------- C17
\* C17: the executor constructed for a built circuit has a memory of
\* memory_size() slots, all empty, where memory_size() is one plus the
\* largest internal index of the index map, which is the number of wire ids
\* in the map.
C17_MemorySize ==
    last.op = "new"
        => /\ \A w \in DOMAIN circuit[1].memory_map :
                 circuit[1].memory_map[w] < Len(memory)
           /\ \E w \in DOMAIN circuit[1].memory_map :
                 circuit[1].memory_map[w] + 1 = Len(memory)
           /\ Len(memory) = Cardinality(DOMAIN circuit[1].memory_map)
           /\ \A i \in 1..Len(memory) : memory[i] = None

\* an executor was constructed for a circuit over three wire ids
C17_Witness ==
    /\ last.op = "new"
    /\ Cardinality(DOMAIN circuit[1].memory_map) = 3
    /\ Len(memory) = 3

\* --------------------------------------------------------------- C18
\* the last call is a run() in which every component was executed
AfterExecution ==
    /\ last.op = "run"
    /\ last.kind # "Panic"
    /\ last.executed = Len(circuit[1].components)

\* the external outputs whose slot is empty, in the circuit's output order
UnwrittenOutputs(c, wires) ==
    SelectSeq(c.outputs,
              LAMBDA id : /\ id \in DOMAIN c.memory_map
                          /\ c.memory_map[id] < Len(wires)
                          /\ wires[c.memory_map[id] + 1] = None)

\* C18: after the circuit has executed, run() fails with UndefinedOutput(id)
\* if the slot at the internal index of the external output id was never
\* written, id being the first such output.
C18_UndefinedOutput ==
    (AfterExecution /\ UnwrittenOutputs(circuit[1], memory) # <<>>)
        => /\ last.kind = "Err"
           /\ last.error = <<"UndefinedOutput",
                             UnwrittenOutputs(circuit[1], memory)[1]>>

\* --------------------------------------------------------------- C19
\* C19: the external outputs of a built circuit are exactly the wire ids
\* that are an output of some stored component and an input of no stored
\* component, each listed once, whatever add_inputs calls and successful or
\* failed add_component calls preceded build().
C19_ExternalOutputs ==
    (last.op = "build" /\ last.kind = "Ok")
        => /\ Range(circuit[1].outputs)
                = OutputsOf(circuit[1].components) \ InputsOf(circuit[1].components)
           /\ \A i, j \in 1..Len(circuit[1].outputs) :
                 circuit[1].outputs[i] = circuit[1].outputs[j] => i = j

\* --------------------------------------------------------------- C20
\* C20: in every circuit returned by build(), whatever add_inputs calls and
\* successful or failed add_component calls preceded it, every input id of
\* the component stored at position i is a declared circuit input or an
\* output of a component stored at a position j < i.
C20_StoredOrderIsTopological ==
    (last.op = "build" /\ last.kind = "Ok")
        => \A k \in 1..Len(circuit[1].components) :
              InputsConnected(circuit[1].components[k],
                              Range(circuit[1].inputs),
                              Prefix(circuit[1].components, k - 1))

\* --------------------------------------------------------------- C21
\* the components executed one after the other in insertion order from
\* position k on, starting with memory `wires`, up to and including the
\* first one whose execute does not return Ok: the position of that
\* component (0 if there is none) and the memory afterwards
RECURSIVE InInsertionOrder(_, _, _, _)
InInsertionOrder(t, components, wires, k) ==
    IF k > Len(components)
    THEN [stopped |-> 0, kind |-> "Ok", wires |-> wires]
    ELSE IF component_execute(t, components[k], wires).kind = "Ok"
         THEN InInsertionOrder(t, components,
                               component_execute(t, components[k], wires).wires,
                               k + 1)
         ELSE [stopped |-> k,
               kind    |-> component_execute(t, components[k], wires).kind,
               wires   |-> component_execute(t, components[k], wires).wires]

\* the last call is a run() whose input phase completed, so that execute
\* was called on the memory holding the declared inputs' values
ExecuteCalled ==
    /\ last.op = "run"
    /\ Cardinality(DOMAIN last.arg) = Len(circuit[1].inputs)
    /\ set_inputs_loop(circuit[1], last.before, last.arg, 1).error = <<>>

\* C21: execute(memory) runs the stored components strictly in insertion
\* order; if a component's execute returns Err, it returns
\* ComponentExecutionError, executes no later component and keeps the writes
\* made so far; if none fails every component is executed exactly once and
\* the memory holds what they wrote.
C21_ExecuteInInsertionOrder ==
    ExecuteCalled
        => LET inOrder == InInsertionOrder(
                              T, circuit[1].components,
                              set_inputs_loop(circuit[1], last.before,
                                              last.arg, 1).wires,
                              1)
           IN /\ memory = inOrder.wires
              /\ inOrder.kind = "Err"
                    => /\ last.kind = "Err"
                       /\ last.error = <<"ComponentExecutionError">>
                       /\ last.executed = inOrder.stopped
              /\ inOrder.kind = "Ok"
                    => /\ last.executed = Len(circuit[1].components)
                       /\ last.error # <<"ComponentExecutionError">>
              /\ last.error = <<"ComponentExecutionError">>
                    => inOrder.kind = "Err"

\* the second of two components returned Err after the first had written
\* its output
C21_Witness ==
    /\ last.op = "run"
    /\ last.error = <<"ComponentExecutionError">>
    /\ last.executed = 2
    /\ memory # set_inputs_loop(circuit[1], last.before, last.arg, 1).wires

\* --------------------------------------------------------------- C22
\* C22: a built circuit serves as a component of a larger builder: an outer
\* builder that declares the inner circuit's inputs accepts it and builds,
\* the stored component's inputs() and outputs() are the inner circuit's
\* declared inputs and external outputs, and when the inner circuit alone
\* returns its outputs for a binding, the outer circuit on a fresh executor
\* returns, for the same binding, the same values on the inner circuit's
\* output ids.
C22_CircuitAsComponent ==
    /\ last.op = "nest"
        => /\ last.kind = "Ok"
           /\ Len(circuit[1].components) = 1
           /\ circuit[1].components[1].inputs = last.arg.inputs
           /\ circuit[1].components[1].outputs = last.arg.outputs
    /\ (/\ last.op = "run"
        /\ T = "GenericCircuit"
        /\ previous.kind = "Ok"
        /\ DOMAIN last.arg = Range(circuit[1].inputs))
        => /\ last.kind = "Ok"
           /\ \A id \in DOMAIN previous.value :
                 /\ id \in DOMAIN last.value
                 /\ last.value[id] = previous.value[id]

\* ---- the arithmetic circuits of simulate
\* the wires some input name or constant is bound to
SourceWires(c) ==
    {c.info.input_name_to_wire_index[n] :
         n \in DOMAIN c.info.input_name_to_wire_index} \cup
    {c.info.constants[n].wire_index : n \in DOMAIN c.info.constants}

\* every gate reads only wires bound to an input or a constant, or written
\* by a gate listed before it
Topological(c) ==
    \A i \in 1..Len(c.gates) :
        {c.gates[i].lh_in, c.gates[i].rh_in} \subseteq
            SourceWires(c) \cup {c.gates[j].out : j \in 1..(i - 1)}

\* every wire index the circuit mentions is below wire_count
WellIndexed(c) ==
    /\ \A w \in SourceWires(c) : w < c.wire_count
    /\ \A i \in 1..Len(c.gates) :
           /\ c.gates[i].lh_in < c.wire_count
           /\ c.gates[i].rh_in < c.wire_count
           /\ c.gates[i].out < c.wire_count
    /\ \A n \in DOMAIN c.info.output_name_to_wire_index :
           c.info.output_name_to_wire_index[n] < c.wire_count

\* the numbers the constants are written as
ConstantsParse(c) ==
    \A n \in DOMAIN c.info.constants :
        c.info.constants[n].value \in {"0", "2"}

ConstantNumber(s) == IF s = "2" THEN 2 ELSE 0

\* the values of the wires before any gate is evaluated: the constant on the
\* wire, else the value of the input named for the wire, else zero
StartValue(c, inputs, w) ==
    IF \E n \in DOMAIN c.info.constants : c.info.constants[n].wire_index = w
    THEN ConstantNumber(
             c.info.constants[CHOOSE n \in DOMAIN c.info.constants :
                                  c.info.constants[n].wire_index = w].value)
    ELSE IF \E n \in DOMAIN c.info.input_name_to_wire_index :
                c.info.input_name_to_wire_index[n] = w
         THEN inputs[CHOOSE n \in DOMAIN c.info.input_name_to_wire_index :
                         c.info.input_name_to_wire_index[n] = w]
         ELSE 0

\* the value of wire w once the first k gates have been evaluated in listed
\* order, each by wires[out] := wires[lh_in] op wires[rh_in]
RECURSIVE WireValueAfter(_, _, _, _)
WireValueAfter(c, inputs, k, w) ==
    IF k = 0
    THEN StartValue(c, inputs, w)
    ELSE IF c.gates[k].out # w
         THEN WireValueAfter(c, inputs, k - 1, w)
         ELSE LET a == WireValueAfter(c, inputs, k - 1, c.gates[k].lh_in)
                  b == WireValueAfter(c, inputs, k - 1, c.gates[k].rh_in)
              IN CASE c.gates[k].op = "AAdd" -> a + b
                   [] c.gates[k].op = "AMul" -> a * b
                   [] OTHER -> a \div b

\* every gate's operation is supported and has a result
GatesSucceed(c, inputs) ==
    \A k \in 1..Len(c.gates) :
        /\ c.gates[k].op # "ADiv"
        /\ c.gates[k].op = "AIntDiv" =>
               WireValueAfter(c, inputs, k - 1, c.gates[k].rh_in) # 0

\* the map simulate is to return
OutputValues(c, inputs) ==
    [n \in DOMAIN c.info.output_name_to_wire_index |->
         WireValueAfter(c, inputs, Len(c.gates),
                        c.info.output_name_to_wire_index[n])]

InputsSupplied(c, inputs) ==
    DOMAIN c.info.input_name_to_wire_index \subseteq DOMAIN inputs

C24_InputsNeverRebound ==
    /\ phase = "builder" =>
           Declared(builder) \cap OutputsOf(builder.components) = {}
    /\ circuit # None =>
           Range(circuit[1].inputs) \cap OutputsOf(circuit[1].components) = {}

\* C25: a failed add_component leaves the builder unchanged.  When
\* add_component returns an error, the component list, the seen-input set,
\* the seen-output set, the index map and the next-index counter are exactly
\* as before the call.
C25_FailedAddComponentLeavesBuilderUnchanged ==
    (last.op = "add_component" /\ last.kind = "Err") =>
        /\ builder.components = last.before.components
        /\ builder.component_inputs = last.before.component_inputs
        /\ builder.component_outputs = last.before.component_outputs
        /\ builder.index_map = last.before.index_map
        /\ builder.next_index = last.before.next_index

\* ---- the memory indices a run touches
\* the indices the executor uses to bind the inputs and collect the outputs
ExecutorAccesses ==
    IF last.error = <<"InputLengthMismatch">>
    THEN {}
    ELSE {circuit[1].memory_map[w] :
              w \in (Range(circuit[1].inputs) \cup
                     (IF last.kind # "Panic"
                         /\ last.executed = Len(circuit[1].components)
                      THEN Range(circuit[1].outputs) ELSE {}))
                    \cap DOMAIN circuit[1].memory_map}

\* the indices a gate that ran to its end has read and written
CompletedGateAccesses(gate) ==
    {gate.inputs[1], gate.inputs[2], gate.outputs[1]}

\* the indices the gate that unwound has touched, on the memory it found
\* (which it left as it was): the first input, then the second if the first
\* read succeeded, then the output
UnwoundGateAccesses(gate, wires) ==
    IF Len(gate.inputs) < 1
    THEN {}
    ELSE {gate.inputs[1]} \cup
         (IF read(wires, gate.inputs[1]).kind # "Ok" \/ Len(gate.inputs) < 2
          THEN {}
          ELSE {gate.inputs[2]} \cup
               (IF Len(gate.outputs) < 1
                   \/ (T = "circuit::tests::BinaryGate"
                       /\ read(wires, gate.inputs[2]).kind # "Ok")
                THEN {}
                ELSE {gate.outputs[1]}))

ComponentAccesses ==
    IF last.kind = "Panic"
    THEN UNION {CompletedGateAccesses(circuit[1].components[k]) :
                    k \in 1..(last.executed - 1)}
         \cup UnwoundGateAccesses(circuit[1].components[last.executed], memory)
    ELSE UNION {CompletedGateAccesses(circuit[1].components[k]) :
                    k \in 1..last.executed}

\* C26: memory_size() slots suffice for a run.  No memory access made during
\* run(), by the executor binding inputs and collecting outputs or by a
\* component's execute, uses an index >= memory_size().
C26_MemorySizeSuffices ==
    last.op = "run" =>
        \A index \in ExecutorAccesses \cup ComponentAccesses :
            index < memory_size(circuit[1])

\* ---- runs that fail while the inputs are bound
\* the position of the first declared input that the binding lacks
FirstAbsent(c, inputs) ==
    CHOOSE k \in 1..Len(c.inputs) :
        /\ c.inputs[k] \notin DOMAIN inputs
        /\ \A j \in 1..(k - 1) : c.inputs[j] \in DOMAIN inputs

\* the memory `wires` with the values of the declared inputs before
\* position k written to their slots
WithInputsBefore(c, wires, inputs, k) ==
    [s \in 1..Len(wires) |->
        IF \E j \in 1..(k - 1) : c.memory_map[c.inputs[j]] + 1 = s
        THEN Some(inputs[c.inputs[CHOOSE j \in 1..(k - 1) :
                                      c.memory_map[c.inputs[j]] + 1 = s]])
        ELSE wires[s]]

FailedBeforeExecution ==
    /\ last.op = "run"
    /\ last.kind = "Err"
    /\ last.error[1] \in {"InputLengthMismatch", "InputNotFoundError"}

\* C27 (as stated): a run() that fails with InputLengthMismatch or
\* InputNotFoundError leaves the executor's memory exactly as it was.
C27_FailedRunLeavesMemory ==
    FailedBeforeExecution => memory = last.before

\* C27 (amended): a run() that fails with InputLengthMismatch leaves the
\* memory exactly as it was; one that fails with InputNotFoundError has
\* written the values of the declared inputs that precede the first absent
\* one and nothing else; and a run() with a correct binding on a memory
\* whose first declared input is already written fails with
\* RewriteAttempt on that input's slot.
C27_FailedRunLeavesMemoryUnlessInputsWritten ==
    /\ (FailedBeforeExecution /\ last.error[1] = "InputLengthMismatch")
           => memory = last.before
    /\ (FailedBeforeExecution /\ last.error[1] = "InputNotFoundError")
           => /\ last.error[2] =
                     circuit[1].inputs[FirstAbsent(circuit[1], last.arg)]
              /\ memory = WithInputsBefore(circuit[1], last.before, last.arg,
                                           FirstAbsent(circuit[1], last.arg))
    /\ (/\ last.op = "run"
        /\ DOMAIN last.arg = Range(circuit[1].inputs)
        /\ Cardinality(DOMAIN last.arg) = Len(circuit[1].inputs)
        /\ last.before[circuit[1].memory_map[circuit[1].inputs[1]] + 1] # None)
           => /\ last.kind = "Err"
              /\ last.error = FirstInputRewriteAttempt
              /\ memory = last.before

\* a second run with a correct binding has failed on a memory in which the
\* first run, failing with InputNotFoundError, had written an input
C27_Witness ==
    /\ last.op = "run"
    /\ runs = 2
    /\ successes = 0
    /\ DOMAIN last.arg = Range(circuit[1].inputs)
    /\ Cardinality(DOMAIN last.arg) = Len(circuit[1].inputs)
    /\ last.error = FirstInputRewriteAttempt
    /\ \E first \in Bindings(Wires) :
           LET r == run(T, circuit[1], GenericCircuitExecutor_new(circuit[1]),
                        first)
           IN /\ r.kind = "Err"
              /\ r.error[1] = "InputNotFoundError"
              /\ r.wires = last.before

\* C28: declared inputs form a set.  Declaring an input id more than once is
\* the same as declaring it once: the built circuit's declared input count
\* is the number of distinct declared ids, and the first run on a fresh
\* executor with one value per distinct declared id succeeds.
C28_DeclaredInputsFormASet ==
    /\ circuit # None =>
           Len(circuit[1].inputs) = Cardinality(Range(circuit[1].inputs))
    /\ (FirstRunWithExactBinding /\ ~DistinctInputs(circuit[1].inputs))
           => last.kind = "Ok"

\* C29: in every circuit returned by build(), every declared input id and
\* every external output id has an entry in the index map, so run() never
\* returns MemoryMappingError and never finds an output id without an
\* internal index.
C29_InputsAndOutputsAreMapped ==
    /\ circuit # None =>
           Range(circuit[1].inputs) \cup Range(circuit[1].outputs)
               \subseteq DOMAIN circuit[1].memory_map
    /\ (last.op = "run" /\ last.kind = "Err") =>
           last.error[1] \notin {"MemoryMappingError", "UndefinedOutput"}

\* a run has bound every declared input and collected every output of a
\* circuit built after an add_component was rejected
C29_Witness ==
    /\ last.op = "run"
    /\ last.kind = "Ok"
    /\ circuit[1].inputs # <<>>
    /\ DOMAIN last.value = Range(circuit[1].outputs)
    /\ circuit[1].outputs # <<>>
    /\ adds > Len(circuit[1].components)

\* C30: every circuit returned by build() has at least one declared input
\* and at least one external output, so a run() with an empty binding fails
\* and a successful run() returns a non-empty binding.
C30_AtLeastOneInputAndOutput ==
    /\ circuit # None =>
           (circuit[1].inputs # <<>> /\ circuit[1].outputs # <<>>)
    /\ (last.op = "run" /\ DOMAIN last.arg = {}) => last.kind # "Ok"
    /\ (last.op = "run" /\ last.kind = "Ok") => DOMAIN last.value # {}

\* C31: read_info_and_bristol terminates, returning Ok or Err, on every
\* finite input text, including a text that ends before the three header
\* lines or before the declared number of gate lines has been read.
C31_ReadTerminates ==
    <>(reader.pc = "done" /\ last.op = "read_info_and_bristol"
           /\ last.kind \in {"Ok", "Err"})

====
